---- MODULE Spec2Model ----
(***************************************************************************)
(* Model of the ECMWF downloader workflow                                  *)
(* (src/ecmwf_pipeline/download_pipeline/pipeline.py):                      *)
(*   prepare_target_name, skip_partition, prepare_partition, fetch_data.   *)
(* The Manifest (manifest.py) is not part of the sources at hand; its      *)
(* three operations are modelled from the written specification (4.4).     *)
(***************************************************************************)
EXTENDS Integers, Sequences, FiniteSets, TLC

VARIABLES
  config,    \* the configuration document: [selection, parameters]
  runargs,   \* per orchestrator run: what run() writes into parameters
  known_args,\* per run: the command line run() parsed (none for a direct call)
  gen,       \* per run: the state of the prepare_partition generator
  emitted,   \* per run: the partitions yielded so far (objects a consumer holds),
             \* each with the key it was scheduled under
  trace,     \* per run: one record per candidate the generator has examined
  store,     \* the blob store: the set of targets at which an object exists
  manifest,  \* the manifest: key -> [status, error]
  wk,        \* per worker: the state of its fetch_data invocation
  done       \* per target: number of completed retrieve-and-upload bodies

vars == <<config, runargs, known_args, gen, emitted, trace, store, manifest, wk, done>>

(***************************************************************************)
(* Bounds of the model.                                                    *)
(***************************************************************************)
MaxVals == 2      \* longest value sequence of a partition key
MaxGroups == 2    \* most parameter sub-sections ('[parameters.x]')
MaxPre == 1       \* most objects already in the store before a run
MaxParts == 1     \* most partitions of a run of the whole workflow

PartitionKeyChoices == { <<"year">>, <<"year", "month">> }

\* The value sequence of length n of a selection key.
Values(key, n) ==
  [i \in 1..n |-> IF key = "year" THEN 2019 + i ELSE i]

(***************************************************************************)
(* Pure helpers.                                                           *)
(***************************************************************************)
\* dict.update: the keys of ov override those of p.
DictUpdate(p, ov) ==
  [k \in (DOMAIN p) \cup (DOMAIN ov) |-> IF k \in DOMAIN ov THEN ov[k] ELSE p[k]]

EmptyDict == [k \in {} |-> 0]

\* dict.get(key, default)
DictGet(d, key, default) == IF key \in DOMAIN d THEN d[key] ELSE default

RECURSIVE SeqProd(_)
SeqProd(ns) == IF ns = <<>> THEN 1 ELSE Head(ns) * SeqProd(Tail(ns))

\* A variant in which the first sequence varies fastest.
RECURSIVE Product_FirstFastest(_)
Product_FirstFastest(seqs) ==
  IF seqs = <<>> THEN << <<>> >>
  ELSE LET rest == Product_FirstFastest(Tail(seqs))
           h == Head(seqs)
           n == Len(h)
       IN [i \in 1..(n * Len(rest)) |->
             <<h[((i - 1) % n) + 1]>> \o rest[((i - 1) \div n) + 1]]

\* itertools.product(*seqs): the tuples in odometer order, the first
\* sequence varying slowest.
RECURSIVE Product(_)
Product(seqs) ==
  IF seqs = <<>> THEN << <<>> >>
  ELSE LET rest == Product(Tail(seqs))
           m == Len(rest)
           h == Head(seqs)
       IN [i \in 1..(Len(h) * m) |->
             <<h[((i - 1) \div m) + 1]>> \o rest[((i - 1) % m) + 1]]

\* str.format(*values) on a template with `fields` replacement fields: the
\* text is determined by the first `fields` values; surplus values are ignored.
Format(fields, vals) == SubSeq(vals, 1, fields)

\* A variant that reports every failure of the lookups as a ValueError.
prepare_target_name_raises_ValueError(cfg) ==
  LET partition_keys == cfg.parameters.partition_keys
  IN IF \/ \E i \in 1..Len(partition_keys) :
              \/ partition_keys[i] \notin DOMAIN cfg.selection
              \/ cfg.selection[partition_keys[i]] = <<>>
        \/ cfg.parameters.target_template > Len(partition_keys)
       THEN "ValueError"
       ELSE "none"

\* The exception prepare_target_name ends with, "none" when it returns:
\* config['selection'][key] raises KeyError for a key that selection lacks,
\* [0] raises IndexError on an empty value list, and str.format raises
\* IndexError for a field beyond the values supplied.
prepare_target_name_raises(cfg) ==
  LET partition_keys == cfg.parameters.partition_keys
  IN IF \E i \in 1..Len(partition_keys) :
          partition_keys[i] \notin DOMAIN cfg.selection
       THEN "KeyError"
     ELSE IF \E i \in 1..Len(partition_keys) :
          cfg.selection[partition_keys[i]] = <<>>
       THEN "IndexError"
     ELSE IF cfg.parameters.target_template > Len(partition_keys)
       THEN "IndexError"
     ELSE "none"

\* A variant that substitutes the values in the reverse of partition_keys
\* order.
prepare_target_name_Reversed(cfg) ==
  LET partition_keys == cfg.parameters.partition_keys
      n == Len(partition_keys)
      partition_key_values ==
        [i \in 1..n |-> cfg.selection[partition_keys[n + 1 - i]][1]]
  IN Format(cfg.parameters.target_template, partition_key_values)

\* prepare_target_name
prepare_target_name(cfg) ==
  LET partition_keys == cfg.parameters.partition_keys
      partition_key_values ==
        [i \in 1..Len(partition_keys) |-> cfg.selection[partition_keys[i]][1]]
  IN Format(cfg.parameters.target_template, partition_key_values)

\* A variant that tests the flag before the existence check the wrong way
\* round.
skip_partition_Inverted(cfg, st) ==
  IF "force_download" \notin DOMAIN cfg.parameters THEN FALSE
  ELSE IF ~cfg.parameters.force_download THEN FALSE
  ELSE prepare_target_name(cfg) \in st

\* A variant that reads the flag with a default of false
\* (parameters.get('force_download', False)).
skip_partition_Default(cfg, st) ==
  IF DictGet(cfg.parameters, "force_download", FALSE) THEN FALSE
  ELSE prepare_target_name(cfg) \in st

\* skip_partition
skip_partition(cfg, st) ==
  IF "force_download" \notin DOMAIN cfg.parameters THEN FALSE
  ELSE IF cfg.parameters.force_download THEN FALSE
  ELSE prepare_target_name(cfg) \in st

(***************************************************************************)
(* The Manifest, modelled from the specification (section 4.4): an entry   *)
(* per key (selection, target, user) with a status and the recorded error. *)
(***************************************************************************)
ManifestKey(selection, target, user) ==
  [selection |-> selection, target |-> target, user |-> user]

StatusOf(m, key) == IF key \in DOMAIN m THEN m[key].status ELSE "absent"

\* A variant that treats a second call for a key as an error and records it.
ManifestSchedule_Strict(m, key) ==
  [k \in (DOMAIN m) \cup {key} |->
     IF k # key THEN m[k]
     ELSE IF key \in DOMAIN m THEN [status |-> "failure", error |-> "AlreadyScheduled"]
     ELSE [status |-> "scheduled", error |-> "none"]]

\* schedule: records a `scheduled` entry; an entry that exists already is
\* left as it is, and the call does not fail.
ManifestSchedule(m, key) ==
  IF key \in DOMAIN m THEN m
  ELSE [k \in (DOMAIN m) \cup {key} |->
          IF k = key THEN [status |-> "scheduled", error |-> "none"] ELSE m[k]]

\* transact, on entry: refused (ConcurrentDownloadError) while the entry of
\* this key is in-progress.
ManifestCanEnter(m, key) == StatusOf(m, key) # "in-progress"

ManifestEnter(m, key) ==
  [k \in (DOMAIN m) \cup {key} |->
     IF k = key THEN [status |-> "in-progress", error |-> "none"] ELSE m[k]]

\* transact, on exit: success on a normal exit, failure with the error
\* recorded when the body raised.
ManifestExit(m, key, error) ==
  [k \in (DOMAIN m) \cup {key} |->
     IF k = key
       THEN [status |-> IF error = "none" THEN "success" ELSE "failure",
             error |-> error]
       ELSE m[k]]

(***************************************************************************)
(* prepare_partition: a generator.  Each step of the loop examines one     *)
(* candidate of the product; a candidate that is not skipped is scheduled  *)
(* in the manifest and yielded.                                            *)
(***************************************************************************)
Runs == DOMAIN gen

\* The configuration prepare_partition receives in run r: run() writes
\* force_download and user_id into parameters before it expands.
RunConfig(r) ==
  [selection |-> config.selection,
   parameters |-> DictUpdate(config.parameters, runargs[r])]

\* A variant that pairs the value sequences position by position (zip)
\* instead of crossing them.
FanOut_Zip(cfg) ==
  LET partition_keys == cfg.parameters.partition_keys
      n == IF \E i \in 1..Len(partition_keys) : cfg.selection[partition_keys[i]] = <<>>
             THEN 0
             ELSE CHOOSE m \in 1..MaxVals + 1 :
                    /\ \A i \in 1..Len(partition_keys) :
                          m <= Len(cfg.selection[partition_keys[i]])
                    /\ \E i \in 1..Len(partition_keys) :
                          m = Len(cfg.selection[partition_keys[i]])
  IN [j \in 1..n |->
        [i \in 1..Len(partition_keys) |-> cfg.selection[partition_keys[i]][j]]]

\* fan_out
FanOut(cfg) ==
  LET partition_keys == cfg.parameters.partition_keys
  IN Product([i \in 1..Len(partition_keys) |-> cfg.selection[partition_keys[i]]])

\* extra_params
ExtraParams(cfg) == cfg.parameters.groups

\* The i-th element (from 1) of params_loop: cycle(extra_params), or
\* repeat({}) when there are no sub-sections.
ParamsLoop(cfg, i) ==
  LET extra_params == ExtraParams(cfg)
  IN IF extra_params = <<>> THEN EmptyDict
     ELSE extra_params[((i - 1) % Len(extra_params)) + 1]

\* The object the local variable `selection` is bound to: the selection of
\* the configuration until a partition has been yielded, and from then on
\* the selection object of the partition yielded last (`selection = copy`).
SelectionObject(r) ==
  IF gen[r].selRef = 0 THEN config.selection
  ELSE emitted[r][gen[r].selRef].part.selection

\* The body of the loop up to the skip check: the candidate `out`.
Candidate(r) ==
  LET cfg == RunConfig(r)
      partition_keys == cfg.parameters.partition_keys
      option == FanOut(cfg)[gen[r].idx]
      params == ParamsLoop(cfg, gen[r].idx)
      selection == SelectionObject(r)
      copy == [key \in DOMAIN selection |->
                 IF \E idx \in 1..Len(partition_keys) : partition_keys[idx] = key
                   THEN <<option[CHOOSE idx \in 1..Len(partition_keys) :
                                   partition_keys[idx] = key]>>
                   ELSE selection[key]]
  IN [selection |-> copy, parameters |-> DictUpdate(cfg.parameters, params)]

Exhausted(r) == gen[r].idx > Len(FanOut(RunConfig(r)))

\* One iteration of the loop that skips its candidate (`continue`).
PartitionSkip(r) ==
  /\ ~Exhausted(r)
  /\ LET out == Candidate(r)
     IN /\ skip_partition(out, store)
        /\ trace' = [trace EXCEPT ![r] = Append(@,
             [skip |-> TRUE, existed |-> prepare_target_name(out) \in store])]
  /\ gen' = [gen EXCEPT ![r].idx = @ + 1]
  /\ UNCHANGED <<config, runargs, known_args, emitted, store, manifest, wk, done>>

\* A variant that yields without the call of manifest.schedule.
PartitionYield_Unscheduled(r) ==
  /\ ~Exhausted(r)
  /\ LET out == Candidate(r)
         location == prepare_target_name(out)
     IN /\ ~skip_partition(out, store)
        /\ emitted' = [emitted EXCEPT ![r] = Append(@,
             [part |-> out, at |-> out, cand |-> gen[r].idx, taken |-> FALSE,
              key |-> ManifestKey(out.selection, location,
                                  DictGet(out.parameters, "user_id", "unknown"))])]
        /\ trace' = [trace EXCEPT ![r] = Append(@,
             [skip |-> FALSE, existed |-> location \in store])]
  /\ gen' = [gen EXCEPT ![r] = [idx |-> @.idx + 1, selRef |-> Len(emitted[r]) + 1]]
  /\ UNCHANGED <<config, runargs, known_args, store, manifest, wk, done>>

\* One iteration of the loop that schedules and yields its candidate.
PartitionYield(r) ==
  /\ ~Exhausted(r)
  /\ LET out == Candidate(r)
         location == prepare_target_name(out)
         user == DictGet(out.parameters, "user_id", "unknown")
     IN /\ ~skip_partition(out, store)
        /\ manifest' = ManifestSchedule(manifest,
                          ManifestKey(out.selection, location, user))
        /\ emitted' = [emitted EXCEPT ![r] = Append(@,
             [part |-> out, at |-> out, cand |-> gen[r].idx, taken |-> FALSE,
              key |-> ManifestKey(out.selection, location, user)])]
        /\ trace' = [trace EXCEPT ![r] = Append(@,
             [skip |-> FALSE, existed |-> location \in store])]
  /\ gen' = [gen EXCEPT ![r] = [idx |-> @.idx + 1, selRef |-> Len(emitted[r]) + 1]]
  /\ UNCHANGED <<config, runargs, known_args, store, wk, done>>

\* A consumer of the generator changes a non-partition entry of the
\* selection of a partition it was handed.
ConsumerMutatesSelection(r, j) ==
  /\ j \in 1..Len(emitted[r])
  /\ \A i \in 1..Len(emitted[r]) : emitted[r][i].part = emitted[r][i].at
  /\ emitted' = [emitted EXCEPT ![r][j].part.selection.variable = <<"changed">>]
  /\ UNCHANGED <<config, runargs, known_args, gen, trace, store, manifest, wk, done>>

\* A consumer changes an entry of the parameters of a partition it was handed.
ConsumerMutatesParameters(r, j) ==
  /\ j \in 1..Len(emitted[r])
  /\ \A i \in 1..Len(emitted[r]) : emitted[r][i].part = emitted[r][i].at
  /\ emitted' = [emitted EXCEPT ![r][j].part.parameters =
                    DictUpdate(@, [dataset |-> "changed"])]
  /\ UNCHANGED <<config, runargs, known_args, gen, trace, store, manifest, wk, done>>

(***************************************************************************)
(* The configurations and the initial states.                              *)
(***************************************************************************)
Group(g) == [api_key |-> g]

Configurations ==
  { [selection |-> [year |-> Values("year", ny),
                    month |-> Values("month", nm),
                    variable |-> <<"t2m">>],
     parameters |-> [partition_keys |-> pk,
                     target_template |-> fields,
                     dataset |-> "era5",
                     groups |-> [g \in 1..ng |-> Group(g)]]] :
      ny \in 0..MaxVals, nm \in 0..MaxVals, pk \in PartitionKeyChoices,
      fields \in 1..2, ng \in 0..MaxGroups }

\* The template has no more fields than there are partition keys, and a
\* selection key that is not a partition key has one fixed value sequence.
WellFormed(cfg) ==
  /\ cfg.parameters.target_template <= Len(cfg.parameters.partition_keys)
  /\ cfg.parameters.partition_keys = <<"year">> => Len(cfg.selection.month) = 1

\* The targets the partitions of a configuration can have.
Targets(cfg) ==
  LET partition_keys == cfg.parameters.partition_keys
      fan_out == FanOut(cfg)
  IN { Format(cfg.parameters.target_template, fan_out[i]) : i \in 1..Len(fan_out) }

\* What a caller puts into parameters: run() always sets both entries; a
\* direct caller of prepare_partition may set either, both or none.
RunArgs ==
  { DictUpdate(f, u) :
      f \in {EmptyDict, [force_download |-> FALSE], [force_download |-> TRUE]},
      u \in {EmptyDict, [user_id |-> "alice"]} }

\* One expansion, over every configuration and every caller.
InitExpand ==
  /\ config \in { cfg \in Configurations : WellFormed(cfg) }
  /\ runargs \in [{1} -> RunArgs]
  /\ known_args = [r \in {1} |-> EmptyDict]
  /\ gen = [r \in {1} |-> [idx |-> 1, selRef |-> 0]]
  /\ emitted = [r \in {1} |-> <<>>]
  /\ trace = [r \in {1} |-> <<>>]
  /\ store \in { s \in SUBSET Targets(config) : Cardinality(s) <= MaxPre }
  /\ manifest = EmptyDict
  /\ wk = EmptyDict
  /\ done = EmptyDict

NextExpand ==
  \/ \E r \in Runs : PartitionSkip(r)
  \/ \E r \in Runs : PartitionYield(r)
  \/ \E r \in Runs : \E j \in 1..Len(emitted[r]) : ConsumerMutatesSelection(r, j)
  \/ \E r \in Runs : \E j \in 1..Len(emitted[r]) : ConsumerMutatesParameters(r, j)

SpecExpand == InitExpand /\ [][NextExpand]_vars

(***************************************************************************)
(* fetch_data: one invocation per worker at a time.  The execution engine  *)
(* hands every yielded partition to one invocation.                        *)
(***************************************************************************)
\* A variant in which a dry run keeps the force-download flag of the
\* command line.
RunParameters_Unforced(args) ==
  [force_download |-> args.force_download, user_id |-> args.user_id]

\* run() sets force_download from the command line and user_id from the
\* login; a dry run then sets force_download to True.
RunParameters(args) ==
  [force_download |-> IF args.dry_run THEN TRUE ELSE args.force_download,
   user_id |-> args.user_id]

\* The client and the store run() binds into fetch_data and hands to
\* prepare_partition; without --dry-run (and for a caller that goes without
\* run()) the client is a network client and the store is GcsIO.
RunEnv(args) ==
  IF DictGet(args, "dry_run", FALSE)
    THEN [client |-> "FakeClient", store |-> "TempFileStore"]
    ELSE [client |-> "CLIENTS", store |-> "GcsIO"]

Workers == DOMAIN wk

Idle == [pc |-> "idle"]

\* A variant with another default for an absent user_id.
FetchKey_DefaultAnonymous(cfg) ==
  ManifestKey(cfg.selection,
              prepare_target_name(cfg),
              DictGet(cfg.parameters, "user_id", "anonymous"))

\* The manifest key fetch_data computes from the partition it is given.
FetchKey(cfg) ==
  ManifestKey(cfg.selection,
              prepare_target_name(cfg),
              DictGet(cfg.parameters, "user_id", "unknown"))

InBody(w) == wk[w].pc \in {"retrieve", "open", "write"}

Count(t) == DictGet(done, t, 0)

\* The frame of an invocation that got past `with manifest.transact(...)`
\* and `with tempfile.NamedTemporaryFile()`: the client and the store are
\* those run() bound, the temporary file exists, and the calls that have
\* returned so far are logged.
Entered(r, cfg) ==
  [pc |-> "retrieve", cfg |-> cfg,
   client |-> RunEnv(known_args[r]).client,
   store |-> RunEnv(known_args[r]).store,
   temp |-> TRUE, log |-> <<"transact">>]

\* A variant that runs the body without entering the transaction first.
FetchBegin_Unguarded(w, r, j) ==
  /\ ~InBody(w)
  /\ j \in 1..Len(emitted[r])
  /\ ~emitted[r][j].taken
  /\ wk' = [wk EXCEPT ![w] = Entered(r, emitted[r][j].part)]
  /\ emitted' = [emitted EXCEPT ![r][j].taken = TRUE]
  /\ UNCHANGED <<config, runargs, known_args, gen, trace, store, manifest, done>>

\* A variant that opens the store at the target on entering the
\* transaction, before client.retrieve is called.
FetchBegin_OpenFirst(w, r, j) ==
  /\ ~InBody(w)
  /\ j \in 1..Len(emitted[r])
  /\ ~emitted[r][j].taken
  /\ LET cfg == emitted[r][j].part
         key == FetchKey(cfg)
     IN IF ManifestCanEnter(manifest, key)
          THEN /\ manifest' = ManifestEnter(manifest, key)
               /\ store' = store \cup {prepare_target_name(cfg)}
               /\ wk' = [wk EXCEPT ![w] =
                    [Entered(r, cfg) EXCEPT !.log = <<"transact", "open">>]]
          ELSE /\ manifest' = manifest
               /\ store' = store
               /\ wk' = [wk EXCEPT ![w] =
                    [pc |-> "raised", cfg |-> cfg,
                     client |-> RunEnv(known_args[r]).client,
                     store |-> RunEnv(known_args[r]).store,
                     temp |-> FALSE, log |-> <<>>,
                     error |-> "ConcurrentDownloadError"]]
  /\ emitted' = [emitted EXCEPT ![r][j].taken = TRUE]
  /\ UNCHANGED <<config, runargs, known_args, gen, trace, done>>

\* A worker that is not inside an invocation takes the next element:
\* fetch_data is invoked on partition j of run r and reaches
\* `with manifest.transact(...)`: the transaction is entered and the
\* temporary file created, or the invocation ends with
\* ConcurrentDownloadError.
FetchBegin(w, r, j) ==
  /\ ~InBody(w)
  /\ j \in 1..Len(emitted[r])
  /\ ~emitted[r][j].taken
  /\ LET cfg == emitted[r][j].part
         key == FetchKey(cfg)
     IN IF ManifestCanEnter(manifest, key)
          THEN /\ manifest' = ManifestEnter(manifest, key)
               /\ wk' = [wk EXCEPT ![w] = Entered(r, cfg)]
          ELSE /\ manifest' = manifest
               /\ wk' = [wk EXCEPT ![w] =
                    [pc |-> "raised", cfg |-> cfg,
                     client |-> RunEnv(known_args[r]).client,
                     store |-> RunEnv(known_args[r]).store,
                     temp |-> FALSE, log |-> <<>>,
                     error |-> "ConcurrentDownloadError"]]
  /\ emitted' = [emitted EXCEPT ![r][j].taken = TRUE]
  /\ UNCHANGED <<config, runargs, known_args, gen, trace, store, done>>

\* A variant that catches the exception inside the transaction, so that the
\* transaction exits normally and fetch_data returns.
BodyRaises_Swallowed(w, error) ==
  /\ manifest' = ManifestExit(manifest, FetchKey(wk[w].cfg), "none")
  /\ wk' = [wk EXCEPT ![w] =
       [pc |-> "returned", cfg |-> @.cfg, client |-> @.client, store |-> @.store,
        temp |-> FALSE, log |-> @.log, error |-> "none"]]

\* A variant whose temporary file outlives an exception (a file created
\* with delete=False).
BodyRaises_TempLeft(w, error) ==
  /\ manifest' = ManifestExit(manifest, FetchKey(wk[w].cfg), error)
  /\ wk' = [wk EXCEPT ![w] =
       [pc |-> "raised", cfg |-> @.cfg, client |-> @.client, store |-> @.store,
        temp |-> TRUE, log |-> @.log, error |-> error]]

\* The body raises `error`: the temporary file is closed and deleted, the
\* transaction records the failure and the exception leaves fetch_data.
BodyRaises(w, error) ==
  /\ manifest' = ManifestExit(manifest, FetchKey(wk[w].cfg), error)
  /\ wk' = [wk EXCEPT ![w] =
       [pc |-> "raised", cfg |-> @.cfg, client |-> @.client, store |-> @.store,
        temp |-> FALSE, log |-> @.log, error |-> error]]

\* client.retrieve returns.
Retrieve(w) ==
  /\ wk[w].pc = "retrieve"
  /\ wk' = [wk EXCEPT ![w].pc = "open", ![w].log = Append(@, "retrieve")]
  /\ UNCHANGED <<config, runargs, known_args, gen, emitted, trace, store, manifest, done>>

\* client.retrieve raises.
RetrieveRaises(w) ==
  /\ wk[w].pc = "retrieve"
  /\ BodyRaises(w, "FetchError")
  /\ UNCHANGED <<config, runargs, known_args, gen, emitted, trace, store, done>>

\* A variant whose store.open returns a writer that never creates the
\* object at the target.
StoreOpen_Lazy(w) ==
  /\ wk[w].pc = "open"
  /\ wk' = [wk EXCEPT ![w].pc = "write", ![w].log = Append(@, "open")]
  /\ UNCHANGED <<config, runargs, known_args, gen, emitted, trace, store, manifest, done>>

\* store.open(target, 'wb') returns: an object exists at the target.
StoreOpen(w) ==
  /\ wk[w].pc = "open"
  /\ store' = store \cup {prepare_target_name(wk[w].cfg)}
  /\ wk' = [wk EXCEPT ![w].pc = "write", ![w].log = Append(@, "open")]
  /\ UNCHANGED <<config, runargs, known_args, gen, emitted, trace, manifest, done>>

\* store.open raises.
StoreOpenRaises(w) ==
  /\ wk[w].pc = "open"
  /\ BodyRaises(w, "StoreError")
  /\ UNCHANGED <<config, runargs, known_args, gen, emitted, trace, store, done>>

\* A variant that uploads outside the transaction, which is never exited.
Upload_Unclosed(w) ==
  /\ wk[w].pc = "write"
  /\ wk' = [wk EXCEPT ![w] =
       [pc |-> "returned", cfg |-> @.cfg, client |-> @.client, store |-> @.store,
        temp |-> FALSE, log |-> Append(@.log, "write"), error |-> "none"]]
  /\ done' = LET t == prepare_target_name(wk[w].cfg)
             IN DictUpdate(done, [k \in {t} |-> Count(t) + 1])
  /\ UNCHANGED <<config, runargs, known_args, gen, emitted, trace, store, manifest>>

\* The chunk loop reaches the end of the file, the blocks are left (the
\* temporary file is closed and deleted) and the transaction exits
\* normally; fetch_data returns.
Upload(w) ==
  /\ wk[w].pc = "write"
  /\ manifest' = ManifestExit(manifest, FetchKey(wk[w].cfg), "none")
  /\ wk' = [wk EXCEPT ![w] =
       [pc |-> "returned", cfg |-> @.cfg, client |-> @.client, store |-> @.store,
        temp |-> FALSE, log |-> Append(@.log, "write"), error |-> "none"]]
  /\ done' = LET t == prepare_target_name(wk[w].cfg)
             IN DictUpdate(done, [k \in {t} |-> Count(t) + 1])
  /\ UNCHANGED <<config, runargs, known_args, gen, emitted, trace, store>>

\* dest.write raises.
UploadRaises(w) ==
  /\ wk[w].pc = "write"
  /\ BodyRaises(w, "StoreError")
  /\ UNCHANGED <<config, runargs, known_args, gen, emitted, trace, store, done>>

\* The execution engine kills the worker inside the transaction: the
\* invocation ends without the with blocks being left.
Kill(w) ==
  /\ InBody(w)
  /\ wk' = [wk EXCEPT ![w].pc = "killed"]
  /\ UNCHANGED <<config, runargs, known_args, gen, emitted, trace, store, manifest, done>>

(***************************************************************************)
(* The whole workflow: orchestrator runs expanding the same configuration  *)
(* and workers fetching the partitions they yield.                         *)
(***************************************************************************)
WorkflowConfigurations ==
  { cfg \in Configurations :
      /\ WellFormed(cfg)
      /\ cfg.parameters.partition_keys = <<"year", "month">>
      /\ Len(cfg.selection.year) = 1
      /\ Len(cfg.selection.month) \in 1..MaxParts
      /\ cfg.parameters.groups = <<>> }

\* The command lines of run(), with the login of the user who runs it.
KnownArgs ==
  [force_download : BOOLEAN, dry_run : BOOLEAN, user_id : {"alice", "bob"}]

\* The entries run() writes into config['parameters'] before the expansion.
WorkflowArgs == { RunParameters(a) : a \in KnownArgs }

Init ==
  /\ config \in WorkflowConfigurations
  /\ known_args \in { a \in [{1, 2} -> KnownArgs] :
         /\ a[1] = [force_download |-> FALSE, dry_run |-> FALSE, user_id |-> "alice"]
         /\ ~a[2].dry_run }
  /\ runargs = [r \in {1, 2} |-> RunParameters(known_args[r])]
  /\ gen = [r \in {1, 2} |-> [idx |-> 1, selRef |-> 0]]
  /\ emitted = [r \in {1, 2} |-> <<>>]
  /\ trace = [r \in {1, 2} |-> <<>>]
  /\ store \in { s \in SUBSET Targets(config) : Cardinality(s) <= MaxPre }
  /\ manifest = EmptyDict
  /\ wk = [w \in {"w1", "w2"} |-> Idle]
  /\ done = EmptyDict

Next ==
  \/ \E r \in Runs : PartitionSkip(r)
  \/ \E r \in Runs : PartitionYield(r)
  \/ \E w \in Workers, r \in Runs : \E j \in 1..Len(emitted[r]) : FetchBegin(w, r, j)
  \/ \E w \in Workers : Retrieve(w)
  \/ \E w \in Workers : RetrieveRaises(w)
  \/ \E w \in Workers : StoreOpen(w)
  \/ \E w \in Workers : StoreOpenRaises(w)
  \/ \E w \in Workers : Upload(w)
  \/ \E w \in Workers : UploadRaises(w)
  \/ \E w \in Workers : Kill(w)

Spec == Init /\ [][Next]_vars

(***************************************************************************)
(* One expansion and its fetches: run() under every command line, dry runs *)
(* included, or a caller that invokes prepare_partition and fetch_data     *)
(* itself on a configuration it built.  `store` is the store object the    *)
(* expansion and the fetches were handed.                                  *)
(***************************************************************************)
InitRun ==
  /\ config \in WorkflowConfigurations
  /\ \/ /\ known_args \in [{1} -> KnownArgs]
        /\ runargs = [r \in {1} |-> RunParameters(known_args[r])]
     \/ /\ known_args = [r \in {1} |-> EmptyDict]
        /\ runargs \in [{1} -> RunArgs]
  /\ gen = [r \in {1} |-> [idx |-> 1, selRef |-> 0]]
  /\ emitted = [r \in {1} |-> <<>>]
  /\ trace = [r \in {1} |-> <<>>]
  /\ store \in { s \in SUBSET Targets(config) : Cardinality(s) <= MaxPre }
  /\ manifest = EmptyDict
  /\ wk = [w \in {"w1", "w2"} |-> Idle]
  /\ done = EmptyDict

SpecRun == InitRun /\ [][Next]_vars

(***************************************************************************)
(* prepare_target_name called directly, on configurations that may lack    *)
(* selection keys or carry a template with too many fields.                *)
(***************************************************************************)
MaxFields == 3    \* most replacement fields of a target template

\* A selection with or without each of the keys year and month.
Selections ==
  { DictUpdate(DictUpdate([variable |-> <<"t2m">>], y), m) :
      y \in {EmptyDict} \cup { [year |-> Values("year", n)] : n \in 0..MaxVals },
      m \in {EmptyDict} \cup { [month |-> Values("month", n)] : n \in 0..MaxVals } }

NamerConfigurations ==
  { [selection |-> sel,
     parameters |-> [partition_keys |-> pk,
                     target_template |-> fields,
                     dataset |-> "era5",
                     groups |-> <<>>]] :
      sel \in Selections, pk \in PartitionKeyChoices, fields \in 0..MaxFields }

\* A caller invokes prepare_target_name(config).
NameTarget(w) ==
  /\ wk[w].pc = "idle"
  /\ wk' = [wk EXCEPT ![w] =
       IF prepare_target_name_raises(config) = "none"
         THEN [pc |-> "returned", cfg |-> config,
               value |-> prepare_target_name(config)]
         ELSE [pc |-> "raised", cfg |-> config,
               error |-> prepare_target_name_raises(config)]]
  /\ UNCHANGED <<config, runargs, known_args, gen, emitted, trace, store, manifest, done>>

InitNamer ==
  /\ config \in NamerConfigurations
  /\ runargs = EmptyDict
  /\ known_args = EmptyDict
  /\ gen = EmptyDict
  /\ emitted = EmptyDict
  /\ trace = EmptyDict
  /\ store = {}
  /\ manifest = EmptyDict
  /\ wk = [w \in {"caller"} |-> Idle]
  /\ done = EmptyDict

NextNamer == \E w \in Workers : NameTarget(w)

SpecNamer == InitNamer /\ [][NextNamer]_vars

(***************************************************************************)
(* Properties of the expansion (checked under SpecExpand).                 *)
(***************************************************************************)
\* The sizes n1..nk of the value sequences of the partition keys.
Sizes(cfg) ==
  [i \in 1..Len(cfg.parameters.partition_keys) |->
     Len(cfg.selection[cfg.parameters.partition_keys[i]])]

NoneSkipped(r) == \A i \in 1..Len(trace[r]) : ~trace[r][i].skip

ForceUnset(r) == "force_download" \notin DOMAIN RunConfig(r).parameters

ForceIs(r, b) == ~ForceUnset(r) /\ RunConfig(r).parameters.force_download = b

\* C1: a generator that ran to exhaustion without skipping any candidate
\* has yielded exactly n1 * ... * nk partitions (none when some ni is 0),
\* and no generator ever yields more than that.
C1_ProductCount ==
  \A r \in Runs :
    /\ Len(emitted[r]) <= SeqProd(Sizes(RunConfig(r)))
    /\ (Exhausted(r) /\ NoneSkipped(r))
         => Len(emitted[r]) = SeqProd(Sizes(RunConfig(r)))

C1_Witness ==
  \E r \in Runs :
    /\ Exhausted(r) /\ NoneSkipped(r)
    /\ Sizes(RunConfig(r)) = <<2, 2>>
    /\ Len(emitted[r]) = 4

\* The candidates (indices into the product) whose target is not in st.
Remaining(cfg, st) ==
  { i \in 1..Len(FanOut(cfg)) :
      Format(cfg.parameters.target_template, FanOut(cfg)[i]) \notin st }

\* C4: with force_download = false a candidate is skipped exactly when its
\* target exists in the store, the partitions yielded are exactly the
\* remaining candidates, in product order, each bound to its tuple, so no
\* partition with an existing target is handed on; with force_download =
\* true no candidate is skipped, whatever the store contains.
C4_SkipExisting ==
  \A r \in Runs :
    /\ ForceIs(r, FALSE) =>
         /\ \A i \in 1..Len(trace[r]) : trace[r][i].skip = trace[r][i].existed
         /\ \A j \in 1..Len(emitted[r]) :
              /\ emitted[r][j].cand \in Remaining(RunConfig(r), store)
              /\ prepare_target_name(emitted[r][j].at) \notin store
              /\ \A k \in 1..Len(RunConfig(r).parameters.partition_keys) :
                   emitted[r][j].at.selection[RunConfig(r).parameters.partition_keys[k]]
                     = <<FanOut(RunConfig(r))[emitted[r][j].cand][k]>>
              /\ j > 1 => emitted[r][j - 1].cand < emitted[r][j].cand
         /\ Exhausted(r) =>
              { emitted[r][j].cand : j \in 1..Len(emitted[r]) }
                = Remaining(RunConfig(r), store)
    /\ ForceIs(r, TRUE) => NoneSkipped(r)

C4_Witness ==
  \E r \in Runs :
    /\ ForceIs(r, FALSE)
    /\ Exhausted(r)
    /\ \E i \in 1..Len(trace[r]) : trace[r][i].skip
    /\ Len(emitted[r]) >= 2

KeyOf(cfg) == FetchKey(cfg)

\* C8: every partition that has been yielded has a manifest record under
\* its (selection, target, user), whether or not it is ever fetched.
C8_ScheduledBeforeYield ==
  \A r \in Runs : \A j \in 1..Len(emitted[r]) :
    KeyOf(emitted[r][j].at) \in DOMAIN manifest

C8_Witness ==
  \E r \in Runs :
    /\ Len(emitted[r]) >= 2
    /\ \A j \in 1..Len(emitted[r]) :
         StatusOf(manifest, KeyOf(emitted[r][j].at)) = "scheduled"
    /\ \E j \in 1..Len(emitted[r]) : KeyOf(emitted[r][j].at).user = "unknown"

\* C9 as claimed: with k >= 1 sub-sections the i-th partition yielded
\* (from 0, counting yielded partitions only) carries sub-section i mod k;
\* without sub-sections nothing is merged.
C9_RoundRobinOverEmitted ==
  \A r \in Runs : \A j \in 1..Len(emitted[r]) :
    LET extra_params == ExtraParams(RunConfig(r))
        k == Len(extra_params)
    IN IF k = 0
         THEN emitted[r][j].at.parameters = RunConfig(r).parameters
         ELSE emitted[r][j].at.parameters =
                DictUpdate(RunConfig(r).parameters, extra_params[((j - 1) % k) + 1])

\* C10 as claimed: whatever a consumer does to a partition it was handed,
\* every partition is yielded with the non-partition entries of the
\* selection of the original configuration.
C10_Isolated ==
  \A r \in Runs : \A j \in 1..Len(emitted[r]) :
    \A key \in DOMAIN config.selection :
      (\A k \in 1..Len(config.parameters.partition_keys) :
          config.parameters.partition_keys[k] # key)
        => emitted[r][j].at.selection[key] = config.selection[key]

(***************************************************************************)
(* Properties of the whole workflow (checked under Spec).                  *)
(***************************************************************************)
\* C2: no two invocations are inside the body of a transaction on the same
\* (selection, target, user) at the same time, and while an invocation is
\* inside the body the entry of its key is in-progress, so that any other
\* attempt on that key ends with ConcurrentDownloadError.
C2_OneTransactionPerKey ==
  /\ \A w1 \in Workers, w2 \in Workers :
       (w1 # w2 /\ InBody(w1) /\ InBody(w2))
         => FetchKey(wk[w1].cfg) # FetchKey(wk[w2].cfg)
  /\ \A w \in Workers :
       InBody(w) => ~ManifestCanEnter(manifest, FetchKey(wk[w].cfg))

C2_Witness ==
  \E w1 \in Workers, w2 \in Workers :
    /\ InBody(w1)
    /\ wk[w2].pc = "raised"
    /\ wk[w2].error = "ConcurrentDownloadError"
    /\ FetchKey(wk[w1].cfg) = FetchKey(wk[w2].cfg)

\* C3 as claimed: when force_download is false in every run, retrieve and
\* upload run to completion at most once for each target.
C3_NoDuplicateDownload ==
  (\A r \in Runs : ForceIs(r, FALSE))
    => \A t \in DOMAIN done : done[t] <= 1

\* C6: a step in which the body of the transaction raises (retrieve, the
\* opening of the store or a write) leaves the entry of the invocation's
\* key in the failure state with that error recorded, and fetch_data ends
\* with the same error raised.
C6_FailureRecorded ==
  [][\A w \in Workers :
       (RetrieveRaises(w) \/ StoreOpenRaises(w) \/ UploadRaises(w))
         => /\ wk'[w].pc = "raised"
            /\ wk'[w].error \in {"FetchError", "StoreError"}
            /\ RetrieveRaises(w) => wk'[w].error = "FetchError"
            /\ StatusOf(manifest', FetchKey(wk[w].cfg)) = "failure"
            /\ manifest'[FetchKey(wk[w].cfg)].error = wk'[w].error]_vars

C6_Witness ==
  \E w \in Workers :
    /\ wk[w].pc = "raised"
    /\ wk[w].error = "StoreError"
    /\ StatusOf(manifest, FetchKey(wk[w].cfg)) = "failure"
    /\ manifest[FetchKey(wk[w].cfg)].error = "StoreError"

\* C7: the step that enters the body leaves the entry in-progress, and the
\* step in which the body completes finds it in-progress and leaves it in
\* the success state, fetch_data returning normally.
C7_SuccessRecorded ==
  [][\A w \in Workers :
       /\ (~InBody(w) /\ wk'[w].pc \in {"retrieve", "open", "write"})
            => StatusOf(manifest', FetchKey(wk'[w].cfg)) = "in-progress"
       /\ Upload(w)
            => /\ StatusOf(manifest, FetchKey(wk[w].cfg)) = "in-progress"
               /\ StatusOf(manifest', FetchKey(wk[w].cfg)) = "success"
               /\ wk'[w].pc = "returned"]_vars

C7_Witness ==
  \E w \in Workers :
    /\ wk[w].pc = "returned"
    /\ StatusOf(manifest, FetchKey(wk[w].cfg)) = "success"
    /\ prepare_target_name(wk[w].cfg) \in store

(***************************************************************************)
(* Order of the expansion (checked under SpecExpand).                      *)
(***************************************************************************)
\* The position of value v in sequence seq.
Pos(seq, v) == CHOOSE i \in 1..Len(seq) : seq[i] = v

\* The odometer reading of the positions pos over wheels of the given sizes,
\* the first wheel the most significant.
RECURSIVE Odometer(_, _)
Odometer(pos, sizes) ==
  IF pos = <<>> THEN 0
  ELSE (Head(pos) - 1) * SeqProd(Tail(sizes)) + Odometer(Tail(pos), Tail(sizes))

\* C11: every partition yielded binds each partition key to exactly one
\* value of that key's sequence, and it is the candidate whose number is
\* the odometer reading of those values (first-listed key slowest, last
\* fastest); the candidates are yielded in increasing order.
C11_OdometerOrder ==
  \A r \in Runs : \A j \in 1..Len(emitted[r]) :
    LET cfg == RunConfig(r)
        partition_keys == cfg.parameters.partition_keys
        bound == [k \in 1..Len(partition_keys) |->
                    emitted[r][j].at.selection[partition_keys[k]]]
    IN /\ \A k \in 1..Len(partition_keys) :
            /\ Len(bound[k]) = 1
            /\ \E i \in 1..Len(cfg.selection[partition_keys[k]]) :
                 cfg.selection[partition_keys[k]][i] = bound[k][1]
       /\ emitted[r][j].cand =
            1 + Odometer([k \in 1..Len(partition_keys) |->
                            Pos(cfg.selection[partition_keys[k]], bound[k][1])],
                         Sizes(cfg))
       /\ j > 1 => emitted[r][j - 1].cand < emitted[r][j].cand

C11_Witness ==
  \E r \in Runs :
    /\ Sizes(RunConfig(r)) = <<2, 2>>
    /\ Len(emitted[r]) = 4
    /\ emitted[r][2].at.selection.year = <<2020>>
    /\ emitted[r][2].at.selection.month = <<2>>
    /\ emitted[r][3].at.selection.year = <<2021>>
    /\ emitted[r][3].at.selection.month = <<1>>

\* The tuple of values a partition binds to the partition keys.
KeyTuple(cfg) ==
  [k \in 1..Len(cfg.parameters.partition_keys) |->
     cfg.selection[cfg.parameters.partition_keys[k]]]

\* The partition objects in existence: those yielded, as they were when
\* yielded and as they are now (after a consumer has changed one).
PartitionObjects ==
  UNION { UNION { {emitted[r][j].at, emitted[r][j].part} :
                    j \in 1..Len(emitted[r]) } : r \in Runs }

\* C15: the target of a partition consists of the first value bound to
\* each partition key, field k of the template taking the value of the
\* k-th partition key; partitions binding the same tuple have the same
\* target, whatever their other selection entries and parameters.
C15_TargetFromKeyTuple ==
  /\ \A p \in PartitionObjects :
       LET target == prepare_target_name(p)
       IN /\ Len(target) = p.parameters.target_template
          /\ \A k \in 1..Len(target) :
               target[k] = p.selection[p.parameters.partition_keys[k]][1]
  /\ \A p \in PartitionObjects, q \in PartitionObjects :
       KeyTuple(p) = KeyTuple(q) => prepare_target_name(p) = prepare_target_name(q)

C15_Witness ==
  \E p \in PartitionObjects, q \in PartitionObjects :
    /\ p # q
    /\ KeyTuple(p) = KeyTuple(q)
    /\ Len(KeyTuple(p)) = 2
    /\ prepare_target_name(p) = <<2021, 2>>
    /\ prepare_target_name(q) = <<2021, 2>>

(***************************************************************************)
(* Further properties of the whole workflow (checked under Spec).          *)
(***************************************************************************)
\* C12 as claimed: no two invocations for the same target are inside the
\* body (retrieve and upload) at the same time, whichever user each carries.
C12_OneDownloadPerTarget ==
  \A w1 \in Workers, w2 \in Workers :
    (w1 # w2 /\ InBody(w1) /\ InBody(w2))
      => prepare_target_name(wk[w1].cfg) # prepare_target_name(wk[w2].cfg)

\* C13 as claimed: a kill inside the transaction leaves the entry
\* in-progress, and an invocation on a partition of a run with
\* force_download = true is never refused on account of an entry that no
\* running invocation holds: it is refused only while another invocation
\* is inside the body on the same key.
C13_ForcedRerunAcquires ==
  [][\A w \in Workers :
       /\ Kill(w) => StatusOf(manifest', FetchKey(wk[w].cfg)) = "in-progress"
       /\ ( /\ wk'[w] # wk[w]
            /\ wk'[w].pc = "raised"
            /\ wk'[w].error = "ConcurrentDownloadError"
            /\ wk'[w].cfg.parameters.force_download )
            => \E w2 \in Workers \ {w} :
                 /\ InBody(w2)
                 /\ FetchKey(wk[w2].cfg) = FetchKey(wk'[w].cfg)]_vars

\* The keys prepare_partition has passed, or is about to pass, to
\* manifest.schedule.
ScheduleKeys ==
  UNION { { KeyOf(emitted[r][j].at) : j \in 1..Len(emitted[r]) } : r \in Runs }
    \cup { KeyOf(Candidate(r)) : r \in { q \in Runs : ~Exhausted(q) } }

\* C14: in every reachable manifest, scheduling a key records an entry for
\* it, and scheduling the same key once more changes nothing.
C14_ScheduleIdempotent ==
  \A key \in ScheduleKeys :
    LET once == ManifestSchedule(manifest, key)
    IN /\ key \in DOMAIN once
       /\ ManifestSchedule(once, key) = once
       /\ key \in DOMAIN manifest => once = manifest

\* Two runs have scheduled the same key, and a third call would find the
\* entry in another state than scheduled.
C14_Witness ==
  \E j1 \in 1..Len(emitted[1]), j2 \in 1..Len(emitted[2]) :
    /\ KeyOf(emitted[1][j1].at) = KeyOf(emitted[2][j2].at)
    /\ StatusOf(manifest, KeyOf(emitted[1][j1].at)) = "success"

(***************************************************************************)
(* Failures of prepare_target_name (checked under SpecNamer).              *)
(***************************************************************************)
\* A key listed in partition_keys is absent from selection.
KeyMissing(cfg) ==
  \E i \in 1..Len(cfg.parameters.partition_keys) :
    cfg.parameters.partition_keys[i] \notin DOMAIN cfg.selection

\* The template references more positions than there are partition keys.
TooManyFields(cfg) ==
  cfg.parameters.target_template > Len(cfg.parameters.partition_keys)

DryRun(r) == DictGet(known_args[r], "dry_run", FALSE)

\* C17: in a dry run force_download is true when the expansion starts,
\* whatever the command line said, so no candidate is skipped whatever the
\* store contains and an exhausted generator has emitted the whole
\* Cartesian product for fetch_data to take; every invocation of fetch_data
\* holds the FakeClient and the TempFileStore.
C17_DryRunFetchesAll ==
  \A r \in Runs :
    DryRun(r) =>
      /\ ForceIs(r, TRUE)
      /\ NoneSkipped(r)
      /\ Exhausted(r) => Len(emitted[r]) = SeqProd(Sizes(RunConfig(r)))
      /\ \A j \in 1..Len(emitted[r]) :
           emitted[r][j].part.parameters.force_download
      /\ \A w \in Workers :
           wk[w].pc # "idle"
             => wk[w].client = "FakeClient" /\ wk[w].store = "TempFileStore"

C17_Witness ==
  \E r \in Runs :
    /\ DryRun(r)
    /\ ~known_args[r].force_download
    /\ Exhausted(r)
    /\ Len(emitted[r]) > 0
    /\ \E i \in 1..Len(trace[r]) : trace[r][i].existed
    /\ \A j \in 1..Len(emitted[r]) : emitted[r][j].taken
    /\ \E w \in Workers : wk[w].pc = "returned" /\ wk[w].client = "FakeClient"

\* C20: every invocation of fetch_data was handed a partition that
\* prepare_partition emitted, and the key it passes to manifest.transact is
\* the key that partition was scheduled under, the user being 'unknown'
\* in both when user_id is absent; a key that is transacted on is a key of
\* the manifest already before the transaction.
C20_TransactKeyScheduled ==
  /\ \A r \in Runs : \A j \in 1..Len(emitted[r]) :
       /\ FetchKey(emitted[r][j].part) = emitted[r][j].key
       /\ emitted[r][j].key \in DOMAIN manifest
       /\ "user_id" \notin DOMAIN emitted[r][j].part.parameters
            => emitted[r][j].key.user = "unknown"
  /\ \A w \in Workers :
       wk[w].pc # "idle"
         => \E r \in Runs : \E j \in 1..Len(emitted[r]) :
              /\ emitted[r][j].taken
              /\ emitted[r][j].part = wk[w].cfg
              /\ emitted[r][j].key = FetchKey(wk[w].cfg)

C20_Witness ==
  \E w \in Workers :
    /\ wk[w].pc = "returned"
    /\ "user_id" \notin DOMAIN wk[w].cfg.parameters
    /\ FetchKey(wk[w].cfg).user = "unknown"
    /\ StatusOf(manifest, FetchKey(wk[w].cfg)) = "success"

(***************************************************************************)
(* Properties of one fetch_data invocation (checked under Spec).           *)
(***************************************************************************)
\* C18: after fetch_data returned and after it raised, from retrieve, from
\* the opening of the store or from a write, the temporary file of the
\* invocation does not exist; it exists while the body runs.
C18_TempFileReleased ==
  \A w \in Workers :
    /\ wk[w].pc \in {"returned", "raised"} => ~wk[w].temp
    /\ InBody(w) => wk[w].temp

C18_Witness ==
  \E w1 \in Workers, w2 \in Workers :
    /\ wk[w1].pc = "raised" /\ wk[w1].error = "StoreError" /\ ~wk[w1].temp
    /\ wk[w2].pc = "returned" /\ ~wk[w2].temp

StepOrder == <<"transact", "retrieve", "open", "write">>

\* C19: the calls of an invocation that have returned are, in order, a
\* prefix of transact, retrieve, open, write: retrieve is called inside the
\* transaction and the store is opened only after retrieve returned; an
\* invocation in which retrieve raised has neither opened nor written.
C19_StepsOrdered ==
  \A w \in Workers :
    wk[w].pc # "idle" =>
      /\ Len(wk[w].log) <= Len(StepOrder)
      /\ wk[w].log = SubSeq(StepOrder, 1, Len(wk[w].log))
      /\ InBody(w) => wk[w].log # <<>>
      /\ (wk[w].pc = "raised" /\ wk[w].error = "FetchError")
           => wk[w].log = <<"transact">>

C19_Witness ==
  \E w \in Workers :
    /\ wk[w].pc = "raised" /\ wk[w].error = "FetchError"
    /\ wk[w].log = <<"transact">>
    /\ prepare_target_name(wk[w].cfg) \notin store

(***************************************************************************)
(* The manifest against the store (checked under Spec).                    *)
(***************************************************************************)
\* The invocation of worker w is at a point where it writes to the store:
\* store.open is about to create the object, or the chunk loop is running.
Writing(w) == wk[w].pc \in {"open", "write"}

\* C21: an entry of the manifest in the success state has an object in the
\* store at its target, and whenever an invocation of fetch_data is
\* writing to the store the entry of its key is in-progress.
C21_SuccessHasObject ==
  /\ \A key \in DOMAIN manifest :
       manifest[key].status = "success" => key.target \in store
  /\ \A w \in Workers :
       Writing(w) => StatusOf(manifest, FetchKey(wk[w].cfg)) = "in-progress"

C21_Witness ==
  \E w1 \in Workers, w2 \in Workers :
    /\ wk[w1].pc = "returned"
    /\ StatusOf(manifest, FetchKey(wk[w1].cfg)) = "success"
    /\ prepare_target_name(wk[w1].cfg) \in store
    /\ wk[w2].pc = "write"
    /\ StatusOf(manifest, FetchKey(wk[w2].cfg)) = "in-progress"

====
